---- MODULE Spec2Model ----
(***************************************************************************)
(* Model of shopping_cart-1.py: Product stock, CartItem quantities, the    *)
(* ShoppingCart operations add_item / remove_item / update_quantity, the   *)
(* loading of the catalog and cart files, and the menu loop of main().     *)
(***************************************************************************)
EXTENDS Integers, Sequences, FiniteSets, TLC

(* ---------------------------------------------------------------- bounds *)
\* largest quantity_available written in a catalog file record
MaxStock == 2
\* quantities typed at the menu range over -1 .. MaxQty
MaxQty == 3
\* longest cart file found at start-up
MaxCartRecs == 1
\* stock and cart quantities are explored up to this value
MaxUnits == 3

CatalogIds == {"P1", "P2"}
\* "P3" is an identifier no catalog record carries
ProductIds == CatalogIds \cup {"P3"}
Qtys == (0 - 1) .. MaxQty
Price == [p \in CatalogIds |-> IF p = "P1" THEN 10 ELSE 3]

VARIABLES
    catalog,      \* self.catalog : product_id -> [price, quantity_available]
    items,        \* self._items  : ordered dict, a sequence of [product_id, quantity]
    catalogFile,  \* products.json: [exists, data]
    cartFile,     \* cart.json    : [exists, data]
    pc,           \* position of main(): "menu" inside the loop, "done" after break
    last,         \* the last choice carried out: [op, pid, qty, ret (value returned)]
    pre           \* catalog, items and cartFile as they were before that choice

vars == <<catalog, items, catalogFile, cartFile, pc, last, pre>>

(* ------------------------------------------------------- dict operations *)
\* keys of the ordered dict d
Keys(d) == {d[i].product_id : i \in 1..Len(d)}

\* position of key k in d (k is a key of d)
IndexOf(d, k) == CHOOSE i \in 1..Len(d) : d[i].product_id = k

\* d[k].quantity
QuantityOf(d, k) == d[IndexOf(d, k)].quantity

\* d[k] = CartItem(product, q): an existing key keeps its position
DictSet(d, k, q) ==
    IF k \in Keys(d)
    THEN [d EXCEPT ![IndexOf(d, k)].quantity = q]
    ELSE Append(d, [product_id |-> k, quantity |-> q])

\* d.pop(k)
DictPop(d, k) ==
    LET i == IndexOf(d, k)
    IN  SubSeq(d, 1, i - 1) \o SubSeq(d, i + 1, Len(d))

(* ---------------------------------------------------------------- Product *)
\* decrease_quantity without the test amount > 0
decrease_quantity_any_sign(qa, amount) ==
    IF qa >= amount
    THEN [ok |-> TRUE, qa |-> qa - amount]
    ELSE [ok |-> FALSE, qa |-> qa]

\* Product.decrease_quantity: [ok, qa] for a product holding qa
decrease_quantity(qa, amount) ==
    IF amount > 0 /\ qa >= amount
    THEN [ok |-> TRUE, qa |-> qa - amount]
    ELSE [ok |-> FALSE, qa |-> qa]

\* Product.increase_quantity: the new quantity_available
increase_quantity(qa, amount) ==
    IF amount > 0 THEN qa + amount ELSE qa

(* --------------------------------------------------------------- CartItem *)
\* a quantity setter that refuses zero as well as negative values
quantity_setter_strict(cur, value) ==
    IF value > 0 THEN value ELSE cur

\* CartItem.quantity setter: the new _quantity of an item holding cur
quantity_setter(cur, value) ==
    IF value >= 0 THEN value ELSE cur

(* ---------------------------------------------------------------- loading *)
RECURSIVE LoadCatalogFrom(_, _)
LoadCatalogFrom(data, acc) ==
    IF data = <<>> THEN acc
    ELSE LET p == Head(data)
             product == [price |-> p.price, quantity_available |-> p.quantity_available]
             ext == [k \in DOMAIN acc \cup {p.product_id} |->
                        IF k = p.product_id THEN product ELSE acc[k]]
         IN  LoadCatalogFrom(Tail(data), ext)

\* ShoppingCart._load_catalog
load_catalog(file) ==
    IF file.exists THEN LoadCatalogFrom(file.data, <<>>) ELSE <<>>

\* a cart loader that keeps the records of unknown products
RECURSIVE LoadCartFrom_keep_unknown(_, _, _)
LoadCartFrom_keep_unknown(data, cat, acc) ==
    IF data = <<>> THEN acc
    ELSE LET item == Head(data)
         IN  LoadCartFrom_keep_unknown(Tail(data), cat,
                 DictSet(acc, item.product_id, item.quantity))

RECURSIVE LoadCartFrom(_, _, _)
LoadCartFrom(data, cat, acc) ==
    IF data = <<>> THEN acc
    ELSE LET item == Head(data)
         IN  LoadCartFrom(Tail(data), cat,
                 IF item.product_id \in DOMAIN cat
                 THEN DictSet(acc, item.product_id, item.quantity)
                 ELSE acc)

\* ShoppingCart._load_cart_state
load_cart_state(file, cat) ==
    IF file.exists THEN LoadCartFrom(file.data, cat, <<>>) ELSE <<>>

\* ShoppingCart._save_cart_state: the file written from the dict d
save_cart_state(d) == [exists |-> TRUE, data |-> d]

(* ----------------------------------------------------------- ShoppingCart *)
\* Each operation maps (catalog, items, cartFile) to the same three plus the
\* value returned.
Outcome(cat, its, file, ret) ==
    [catalog |-> cat, items |-> its, cartFile |-> file, ret |-> ret]

\* a stock assignment that reaches every product of the catalog
SetStock_all(cat, pid, qa) ==
    [p \in DOMAIN cat |-> [cat[p] EXCEPT !.quantity_available = qa]]

SetStock(cat, pid, qa) == [cat EXCEPT ![pid].quantity_available = qa]

\* add_item without the availability test of its guard
add_item_unchecked(cat, its, file, product_id, quantity) ==
    IF product_id \in DOMAIN cat
    THEN LET its2 == IF product_id \in Keys(its)
                     THEN DictSet(its, product_id,
                              quantity_setter(QuantityOf(its, product_id),
                                              QuantityOf(its, product_id) + quantity))
                     ELSE DictSet(its, product_id, quantity)
             dec == decrease_quantity(cat[product_id].quantity_available, quantity)
         IN  Outcome(SetStock(cat, product_id, dec.qa), its2, save_cart_state(its2), TRUE)
    ELSE Outcome(cat, its, file, FALSE)

add_item(cat, its, file, product_id, quantity) ==
    IF product_id \in DOMAIN cat /\ cat[product_id].quantity_available >= quantity
    THEN LET its2 == IF product_id \in Keys(its)
                     THEN DictSet(its, product_id,
                              quantity_setter(QuantityOf(its, product_id),
                                              QuantityOf(its, product_id) + quantity))
                     ELSE DictSet(its, product_id, quantity)
             dec == decrease_quantity(cat[product_id].quantity_available, quantity)
         IN  Outcome(SetStock(cat, product_id, dec.qa), its2, save_cart_state(its2), TRUE)
    ELSE Outcome(cat, its, file, FALSE)

\* remove_item whose "return True" stands outside the if
remove_item_always_true(cat, its, file, product_id) ==
    IF product_id \in Keys(its)
    THEN LET q == QuantityOf(its, product_id)
             its2 == DictPop(its, product_id)
             qa == increase_quantity(cat[product_id].quantity_available, q)
         IN  Outcome(SetStock(cat, product_id, qa), its2, save_cart_state(its2), TRUE)
    ELSE Outcome(cat, its, file, TRUE)

\* remove_item that does not write the cart file after popping the entry
remove_item_no_save(cat, its, file, product_id) ==
    IF product_id \in Keys(its)
    THEN LET q == QuantityOf(its, product_id)
             its2 == DictPop(its, product_id)
             qa == increase_quantity(cat[product_id].quantity_available, q)
         IN  Outcome(SetStock(cat, product_id, qa), its2, file, TRUE)
    ELSE Outcome(cat, its, file, FALSE)

\* remove_item that pops the entry without returning its quantity to stock
remove_item_no_return(cat, its, file, product_id) ==
    IF product_id \in Keys(its)
    THEN LET its2 == DictPop(its, product_id)
         IN  Outcome(cat, its2, save_cart_state(its2), TRUE)
    ELSE Outcome(cat, its, file, FALSE)

remove_item(cat, its, file, product_id) ==
    IF product_id \in Keys(its)
    THEN LET q == QuantityOf(its, product_id)
             its2 == DictPop(its, product_id)
             qa == increase_quantity(cat[product_id].quantity_available, q)
         IN  Outcome(SetStock(cat, product_id, qa), its2, save_cart_state(its2), TRUE)
    ELSE Outcome(cat, its, file, FALSE)

\* update_quantity that assigns and saves the quantity before it tests the stock
update_quantity_early_set(cat, its, file, product_id, new_quantity) ==
    IF product_id \in Keys(its)
    THEN LET cur == QuantityOf(its, product_id)
             diff == new_quantity - cur
             avail == cat[product_id].quantity_available
             its2 == DictSet(its, product_id, quantity_setter(cur, new_quantity))
         IN  IF diff > 0 /\ avail >= diff
             THEN Outcome(SetStock(cat, product_id, decrease_quantity(avail, diff).qa),
                          its2, save_cart_state(its2), TRUE)
             ELSE IF diff < 0
             THEN Outcome(SetStock(cat, product_id, increase_quantity(avail, 0 - diff)),
                          its2, save_cart_state(its2), TRUE)
             ELSE Outcome(cat, its2, save_cart_state(its2), FALSE)
    ELSE Outcome(cat, its, file, FALSE)

update_quantity(cat, its, file, product_id, new_quantity) ==
    IF product_id \in Keys(its)
    THEN LET cur == QuantityOf(its, product_id)
             diff == new_quantity - cur
             avail == cat[product_id].quantity_available
             its2 == DictSet(its, product_id, quantity_setter(cur, new_quantity))
         IN  IF diff > 0 /\ avail >= diff
             THEN Outcome(SetStock(cat, product_id, decrease_quantity(avail, diff).qa),
                          its2, save_cart_state(its2), TRUE)
             ELSE IF diff < 0
             THEN Outcome(SetStock(cat, product_id, increase_quantity(avail, 0 - diff)),
                          its2, save_cart_state(its2), TRUE)
             ELSE Outcome(cat, its, file, FALSE)
    ELSE Outcome(cat, its, file, FALSE)

\* a subtotal that leaves the quantity out
calculate_subtotal_unit(price, quantity) == price

\* CartItem.calculate_subtotal
calculate_subtotal(price, quantity) == price * quantity

\* sum(item.calculate_subtotal() for item in its), accumulated from 0
RECURSIVE SumSubtotals(_, _, _)
SumSubtotals(cat, its, acc) ==
    IF its = <<>> THEN acc
    ELSE SumSubtotals(cat, Tail(its),
             acc + calculate_subtotal(cat[Head(its).product_id].price, Head(its).quantity))

\* ShoppingCart.get_total
get_total(cat, its, file) ==
    Outcome(cat, its, file, SumSubtotals(cat, its, 0))

(* ------------------------------------------------------------------ state *)
CatalogRecord(p, qa) == [product_id |-> p, price |-> Price[p], quantity_available |-> qa]

\* products.json as found at start-up: absent, or one record per catalog product
CatalogFiles ==
    {[exists |-> FALSE, data |-> <<>>],
     [exists |-> TRUE,
      data |-> <<CatalogRecord("P1", MaxStock), CatalogRecord("P2", MaxStock)>>]}

CartRecords == [product_id : ProductIds, quantity : 1..MaxStock]

SeqsUpTo(S, n) == UNION {[1..k -> S] : k \in 0..n}

\* cart.json as found at start-up: absent, or up to MaxCartRecs records
CartFiles ==
    {[exists |-> FALSE, data |-> <<>>]} \cup
    {[exists |-> TRUE, data |-> d] : d \in SeqsUpTo(CartRecords, MaxCartRecs)}

Snapshot == [catalog |-> catalog, items |-> items, cartFile |-> cartFile]

NoCall == [op |-> "init", pid |-> "", qty |-> 0, ret |-> FALSE]

\* stock and cart quantities stay within the explored range
InRange(o) ==
    /\ \A p \in DOMAIN o.catalog : o.catalog[p].quantity_available <= MaxUnits
    /\ \A i \in 1..Len(o.items) : o.items[i].quantity <= MaxUnits

\* ShoppingCart.__init__ as called at the top of main()
Init ==
    /\ catalogFile \in CatalogFiles
    /\ cartFile \in CartFiles
    /\ catalog = load_catalog(catalogFile)
    /\ items = load_cart_state(cartFile, catalog)
    /\ pc = "menu"
    /\ last = NoCall
    /\ pre = Snapshot

\* the catalog records in the order of CatalogOrder
RECURSIVE CatalogRecords(_, _)
CatalogRecords(cat, order) ==
    IF order = <<>> THEN <<>>
    ELSE IF Head(order) \in DOMAIN cat
         THEN <<CatalogRecord(Head(order), cat[Head(order)].quantity_available)>>
                 \o CatalogRecords(cat, Tail(order))
         ELSE CatalogRecords(cat, Tail(order))

CatalogOrder == <<"P1", "P2">>

\* ShoppingCart._save_catalog: the file written from the catalog cat (no
\* operation calls it)
save_catalog(cat) == [exists |-> TRUE, data |-> CatalogRecords(cat, CatalogOrder)]

\* a menu step that also saves the catalog after a call that returned True
Apply_save_catalog(o, op, pid, qty) ==
    /\ InRange(o)
    /\ catalog' = o.catalog
    /\ items' = o.items
    /\ cartFile' = o.cartFile
    /\ last' = [op |-> op, pid |-> pid, qty |-> qty, ret |-> o.ret]
    /\ pre' = Snapshot
    /\ catalogFile' = IF op # "get_total" /\ o.ret
                      THEN save_catalog(o.catalog) ELSE catalogFile
    /\ UNCHANGED pc

Apply(o, op, pid, qty) ==
    /\ InRange(o)
    /\ catalog' = o.catalog
    /\ items' = o.items
    /\ cartFile' = o.cartFile
    /\ last' = [op |-> op, pid |-> pid, qty |-> qty, ret |-> o.ret]
    /\ pre' = Snapshot
    /\ UNCHANGED <<catalogFile, pc>>

\* main, choice '2'
AddItem ==
    /\ pc = "menu"
    /\ \E pid \in ProductIds, qty \in Qtys :
          Apply(add_item(catalog, items, cartFile, pid, qty), "add_item", pid, qty)

\* main, choice '5'
RemoveItem ==
    /\ pc = "menu"
    /\ \E pid \in ProductIds :
          Apply(remove_item(catalog, items, cartFile, pid), "remove_item", pid, 0)

\* main, choice '4'
UpdateQuantity ==
    /\ pc = "menu"
    /\ \E pid \in ProductIds, qty \in Qtys :
          Apply(update_quantity(catalog, items, cartFile, pid, qty), "update_quantity", pid, qty)

\* cart.get_total(), as display_cart calls it for main's choice '3'
GetTotal ==
    /\ pc = "menu"
    /\ Apply(get_total(catalog, items, cartFile), "get_total", "", 0)

\* main, choice '6'
Checkout ==
    /\ pc = "menu"
    /\ pc' = "done"
    /\ last' = [op |-> "checkout", pid |-> "", qty |-> 0, ret |-> TRUE]
    /\ pre' = Snapshot
    /\ UNCHANGED <<catalog, items, catalogFile, cartFile>>

\* main, choice '7'
Exit ==
    /\ pc = "menu"
    /\ pc' = "done"
    /\ last' = [op |-> "exit", pid |-> "", qty |-> 0, ret |-> TRUE]
    /\ pre' = Snapshot
    /\ UNCHANGED <<catalog, items, catalogFile, cartFile>>

Next == AddItem \/ RemoveItem \/ UpdateQuantity \/ GetTotal \/ Checkout \/ Exit

Spec == Init /\ [][Next]_vars

(* ------------------------------------------------- Product called directly *)
\* A catalog of two products built with any stock in 0..MaxStock, no cart.
InitProduct ==
    /\ \E a \in 0..MaxStock, b \in 0..MaxStock :
          catalogFile = [exists |-> TRUE,
                         data |-> <<CatalogRecord("P1", a), CatalogRecord("P2", b)>>]
    /\ cartFile = [exists |-> FALSE, data |-> <<>>]
    /\ catalog = load_catalog(catalogFile)
    /\ items = <<>>
    /\ pc = "menu"
    /\ last = NoCall
    /\ pre = Snapshot

\* product.decrease_quantity(amount) for any product and amount
Decrease ==
    \E pid \in DOMAIN catalog, amount \in Qtys :
        LET r == decrease_quantity(catalog[pid].quantity_available, amount)
        IN  /\ catalog' = SetStock(catalog, pid, r.qa)
            /\ last' = [op |-> "decrease_quantity", pid |-> pid, qty |-> amount, ret |-> r.ok]
            /\ pre' = Snapshot
            /\ UNCHANGED <<items, catalogFile, cartFile, pc>>

\* product.increase_quantity(amount) for any product and amount
Increase ==
    \E pid \in DOMAIN catalog, amount \in Qtys :
        LET qa == increase_quantity(catalog[pid].quantity_available, amount)
        IN  /\ qa <= MaxUnits
            /\ catalog' = SetStock(catalog, pid, qa)
            /\ last' = [op |-> "increase_quantity", pid |-> pid, qty |-> amount, ret |-> FALSE]
            /\ pre' = Snapshot
            /\ UNCHANGED <<items, catalogFile, cartFile, pc>>

NextProduct == Decrease \/ Increase

SpecProduct == InitProduct /\ [][NextProduct]_vars

(* ------------------------------------------------------------- properties *)
StockOf(cat, p) == cat[p].quantity_available

\* quantity of p's cart entry, 0 without an entry
CartQty(its, p) == IF p \in Keys(its) THEN QuantityOf(its, p) ELSE 0

\* the set of cart entries of the dict d
Entries(d) == {d[i] : i \in 1..Len(d)}

\* the last choice left catalog, cart and cart file as they were
StateUnchanged ==
    /\ catalog = pre.catalog
    /\ items = pre.items
    /\ cartFile = pre.cartFile

CartCalls == {"add_item", "remove_item", "update_quantity"}

\* C1: closed inventory. For every catalog product, the quantity of its cart
\* entry (0 without one) plus its quantity_available equals the
\* quantity_available the catalog file gave it at load time.
C1_ClosedInventory ==
    \A p \in DOMAIN catalog :
        CartQty(items, p) + StockOf(catalog, p) = StockOf(load_catalog(catalogFile), p)

\* C2: no negative stock. No product's quantity_available is ever below zero,
\* and an add_item or update_quantity that needs more units than the product
\* has available returns failure.
C2_NoNegativeStock ==
    /\ \A p \in DOMAIN catalog : StockOf(catalog, p) >= 0
    /\ (/\ last.op = "add_item"
        /\ last.pid \in DOMAIN pre.catalog
        /\ last.qty > StockOf(pre.catalog, last.pid)) => ~last.ret
    /\ (/\ last.op = "update_quantity"
        /\ last.pid \in Keys(pre.items)
        /\ last.qty - QuantityOf(pre.items, last.pid) > StockOf(pre.catalog, last.pid))
           => ~last.ret

\* C2 witness: an add_item asking for more than the positive stock left has
\* just been refused.
C2_Witness ==
    /\ last.op = "add_item"
    /\ last.pid \in DOMAIN pre.catalog
    /\ StockOf(pre.catalog, last.pid) > 0
    /\ last.qty > StockOf(pre.catalog, last.pid)
    /\ ~last.ret
    /\ StockOf(catalog, last.pid) = StockOf(pre.catalog, last.pid)

\* C3: idempotent reload. A fresh ShoppingCart built from the two files as
\* they stand has the quantity_available of every product and the cart
\* entries of the cart in memory.
C3_IdempotentReload ==
    LET cat2 == load_catalog(catalogFile)
        its2 == load_cart_state(cartFile, cat2)
    IN  /\ DOMAIN cat2 = DOMAIN catalog
        /\ \A p \in DOMAIN catalog : StockOf(cat2, p) = StockOf(catalog, p)
        /\ Entries(its2) = Entries(items)

\* a successful add_item of a product that had no cart entry was the last call
FreshAdd ==
    /\ last.op = "add_item"
    /\ last.ret
    /\ last.pid \notin Keys(pre.items)

\* C4: add then remove is inverse. When add_item(p, q) succeeded for a product
\* without a cart entry and remove_item(p) is the next call, that call
\* succeeds, p's quantity_available is what it was before the add, and the
\* cart has no entry for p.
C4_AddThenRemove ==
    [][(FreshAdd /\ last'.op = "remove_item" /\ last'.pid = last.pid)
         => /\ last'.ret
            /\ StockOf(catalog', last.pid) = StockOf(pre.catalog, last.pid)
            /\ last.pid \notin Keys(items')]_vars

\* C4 witness: a product without an entry has just been added with a positive
\* quantity taken from its stock, and remove_item of it is the next choice open.
C4_Witness ==
    /\ FreshAdd
    /\ last.qty > 0
    /\ StockOf(catalog, last.pid) = StockOf(pre.catalog, last.pid) - last.qty
    /\ pc = "menu"
    /\ InRange(remove_item(catalog, items, cartFile, last.pid))

\* C5: add_item with quantity <= 0 returns failure and leaves stock, cart and
\* cart file unchanged, for every product_id.
C5_NonPositiveRejected ==
    (last.op = "add_item" /\ last.qty <= 0) => (~last.ret /\ StateUnchanged)

\* C6: after a successful update_quantity(p, n) the entry of p has quantity n
\* and p's quantity_available has changed by (old cart quantity - n).
C6_UpdateSetsQuantity ==
    (last.op = "update_quantity" /\ last.ret)
        => /\ last.pid \in Keys(items)
           /\ QuantityOf(items, last.pid) = last.qty
           /\ StockOf(catalog, last.pid) - StockOf(pre.catalog, last.pid)
                 = QuantityOf(pre.items, last.pid) - last.qty

\* C7: for a product with a cart entry, update_quantity fails only when
\* diff = n - current quantity exceeds quantity_available; with diff <= 0 it
\* succeeds, and with diff = 0 it succeeds and changes neither stock nor cart.
C7_UpdateFailsOnlyOnStock ==
    (last.op = "update_quantity" /\ last.pid \in Keys(pre.items))
        => LET diff == last.qty - QuantityOf(pre.items, last.pid)
           IN  /\ ~last.ret => diff > StockOf(pre.catalog, last.pid)
               /\ diff <= 0 => last.ret
               /\ diff = 0 => (catalog = pre.catalog /\ items = pre.items)

\* C8: after checkout the cart in memory and the persisted cart are empty and
\* every quantity_available is as it was before checkout.
C8_CheckoutClearsCart ==
    last.op = "checkout"
        => /\ items = <<>>
           /\ load_cart_state(cartFile, catalog) = <<>>
           /\ catalog = pre.catalog

\* C9: an add_item, remove_item or update_quantity that returns failure leaves
\* every quantity_available, every cart entry and the cart file as they were.
C9_FailureChangesNothing ==
    (last.op \in CartCalls /\ ~last.ret) => StateUnchanged

\* C9 witness: an update_quantity that asked for more than the stock left has
\* just failed on a product that has a cart entry of positive quantity.
C9_Witness ==
    /\ last.op = "update_quantity"
    /\ ~last.ret
    /\ last.pid \in Keys(pre.items)
    /\ QuantityOf(pre.items, last.pid) > 0
    /\ last.qty - QuantityOf(pre.items, last.pid) > StockOf(pre.catalog, last.pid)

\* C10: add_item's failures are distinguishable. The value returned for a
\* catalog product asked beyond its quantity_available differs from the value
\* returned for a product_id that is not in the catalog.
C10_DistinctFailures ==
    (/\ last.op = "add_item"
     /\ last.pid \in DOMAIN pre.catalog
     /\ last.qty > StockOf(pre.catalog, last.pid))
        => \A u \in ProductIds \ DOMAIN pre.catalog :
              add_item(pre.catalog, pre.items, pre.cartFile, u, last.qty).ret # last.ret

\* C11: CartItem quantity is never negative. Every cart entry has
\* quantity >= 0 in every reachable state.
C11_QuantityNonNegative ==
    \A i \in 1..Len(items) : items[i].quantity >= 0

\* C12: cart persistence. Right after an add_item, remove_item or
\* update_quantity that returned success, the cart file exists and its records
\* are the entries of the cart in memory, in cart order.
C12_CartFileIsCart ==
    (last.op \in CartCalls /\ last.ret) => (cartFile.exists /\ cartFile.data = items)

\* C12 witness: a remove_item has just succeeded and left another entry in the
\* cart, so the file written holds a record.
C12_Witness ==
    /\ last.op = "remove_item"
    /\ last.ret
    /\ Len(items) >= 1
    /\ cartFile.data = items
    /\ cartFile # pre.cartFile

\* update_quantity(p, 0) was the last call, on an entry of positive quantity
ZeroUpdate ==
    /\ last.op = "update_quantity"
    /\ last.qty = 0
    /\ last.pid \in Keys(pre.items)
    /\ QuantityOf(pre.items, last.pid) > 0

\* C13: update_quantity(p, 0) on an entry of positive quantity succeeds,
\* returns the whole reserved quantity to p's stock and leaves an entry of
\* quantity 0 for p; a remove_item(p) that follows succeeds and leaves the
\* stock as it is.
C13_UpdateToZeroKeepsEntry ==
    [][/\ ZeroUpdate' =>
            /\ last'.ret
            /\ StockOf(catalog', last'.pid)
                  = StockOf(catalog, last'.pid) + QuantityOf(items, last'.pid)
            /\ last'.pid \in Keys(items')
            /\ QuantityOf(items', last'.pid) = 0
       /\ (ZeroUpdate /\ last'.op = "remove_item" /\ last'.pid = last.pid) =>
            /\ last'.ret
            /\ last.pid \notin Keys(items')
            /\ catalog' = catalog]_vars

\* C13 witness: update_quantity(p, 0) has just returned a positive reserved
\* quantity to stock and left an entry of quantity 0, with the menu still open
\* for remove_item.
C13_Witness ==
    /\ ZeroUpdate
    /\ last.ret
    /\ QuantityOf(items, last.pid) = 0
    /\ StockOf(catalog, last.pid) > StockOf(pre.catalog, last.pid)
    /\ pc = "menu"
    /\ InRange(remove_item(catalog, items, cartFile, last.pid))

\* the records of the sequence data whose product_id is in the set S
RECURSIVE Known(_, _)
Known(data, S) ==
    IF data = <<>> THEN <<>>
    ELSE IF Head(data).product_id \in S
         THEN <<Head(data)>> \o Known(Tail(data), S)
         ELSE Known(Tail(data), S)

\* C14: cart entries always refer to catalog products. Loading drops every
\* cart-file record whose product_id is not in the catalog (the products kept
\* are those of the known records), and in every reachable state the cart keys
\* are catalog keys. An entry's product is the catalog's product of the same
\* product_id: the cart holds product_id and the stock is read in catalog.
C14_CartRefersToCatalog ==
    /\ Keys(items) \subseteq DOMAIN catalog
    /\ last.op = "init" =>
          Keys(items) = Keys(Known(cartFile.data, DOMAIN catalog))

\* C14 witness: the cart file loaded held a record of a product the non-empty
\* catalog does not have, the record was dropped, and a cart call has run since.
C14_Witness ==
    /\ DOMAIN catalog # {}
    /\ \E i \in 1..Len(cartFile.data) : cartFile.data[i].product_id \notin DOMAIN catalog
    /\ Keys(items) \subseteq DOMAIN catalog
    /\ last.op \in CartCalls

\* C17: absent files load as empty. Without a catalog file the catalog is
\* empty, without a cart file the cart is empty, and in the state loaded with
\* both absent every add_item, remove_item and update_quantity fails and
\* catalog and cart stay empty.
C17_AbsentFilesLoadEmpty ==
    /\ ~catalogFile.exists => DOMAIN catalog = {}
    /\ ~cartFile.exists => items = <<>>
    /\ (~catalogFile.exists /\ ~cartFile.exists /\ last.op \in CartCalls)
          => (~last.ret /\ DOMAIN catalog = {} /\ items = <<>>)

\* C17 witness: loaded with both files absent, an add_item has just failed.
C17_Witness ==
    /\ ~catalogFile.exists
    /\ ~cartFile.exists
    /\ last.op = "add_item"
    /\ ~last.ret
    /\ items = <<>>

\* price times cart quantity, added up over the set S of catalog products
RECURSIVE TotalOver(_)
TotalOver(S) ==
    IF S = {} THEN 0
    ELSE LET p == CHOOSE x \in S : TRUE
         IN  catalog[p].price * CartQty(items, p) + TotalOver(S \ {p})

\* C16: get_total returns the sum over the cart entries of price * quantity,
\* 0 for an empty cart, and changes neither stock, cart nor cart file.
C16_TotalIsSumOfSubtotals ==
    last.op = "get_total" =>
        /\ last.ret = TotalOver(Keys(items))
        /\ items = <<>> => last.ret = 0
        /\ StateUnchanged

\* C16 witness: get_total has just been called on a cart of two entries, one
\* of them of quantity above 1.
C16_Witness ==
    /\ last.op = "get_total"
    /\ Len(items) = 2
    /\ \E i \in 1..Len(items) : items[i].quantity > 1
    /\ \A i \in 1..Len(items) : items[i].quantity > 0
    /\ last.ret > 0

\* C18: no cart operation writes the catalog file. Every step leaves the
\* persisted catalog as it was, also the steps that change quantity_available
\* in memory.
C18_CatalogFileNeverWritten ==
    [][catalogFile' = catalogFile]_vars

\* C18 witness: a cart call has just succeeded and the quantity_available in
\* memory differs from the one the catalog file holds.
C18_Witness ==
    /\ last.op \in CartCalls
    /\ last.ret
    /\ catalog # pre.catalog
    /\ \E p \in DOMAIN catalog :
          StockOf(catalog, p) # StockOf(load_catalog(catalogFile), p)

\* C19: operations touch only the named product. A cart call leaves the
\* quantity_available and the cart entry (presence and quantity) of every
\* other product as they were, and no choice adds or deletes a catalog product
\* or changes a price (product_id is the catalog key).
C19_OnlyNamedProduct ==
    /\ DOMAIN catalog = DOMAIN pre.catalog
    /\ \A p \in DOMAIN catalog : catalog[p].price = pre.catalog[p].price
    /\ last.op \in CartCalls =>
          \A p \in ProductIds \ {last.pid} :
              /\ p \in DOMAIN catalog => StockOf(catalog, p) = StockOf(pre.catalog, p)
              /\ (p \in Keys(items)) = (p \in Keys(pre.items))
              /\ CartQty(items, p) = CartQty(pre.items, p)

\* C19 witness: a cart call has just moved stock of one product while another
\* product had a cart entry of positive quantity and a different stock.
C19_Witness ==
    /\ last.op \in CartCalls
    /\ last.ret
    /\ StockOf(catalog, last.pid) # StockOf(pre.catalog, last.pid)
    /\ \E p \in Keys(pre.items) \ {last.pid} :
          /\ QuantityOf(pre.items, p) > 0
          /\ StockOf(pre.catalog, p) # StockOf(catalog, last.pid)

\* C15: decrease_quantity(amount) returns success and takes exactly amount
\* from quantity_available if and only if amount > 0 and
\* amount <= quantity_available, and otherwise returns failure and changes
\* nothing; increase_quantity(amount) adds exactly amount when amount > 0 and
\* otherwise changes nothing. Checked under SpecProduct.
C15_DecreaseIncrease ==
    /\ last.op = "decrease_quantity" =>
          LET qa0 == StockOf(pre.catalog, last.pid)
          IN  /\ last.ret = (last.qty > 0 /\ last.qty <= qa0)
              /\ last.ret => StockOf(catalog, last.pid) = qa0 - last.qty
              /\ ~last.ret => StockOf(catalog, last.pid) = qa0
    /\ last.op = "increase_quantity" =>
          LET qa0 == StockOf(pre.catalog, last.pid)
          IN  StockOf(catalog, last.pid) = IF last.qty > 0 THEN qa0 + last.qty ELSE qa0

\* C15 witness: decrease_quantity has just refused a non-positive amount on a
\* product that had stock.
C15_Witness ==
    /\ last.op = "decrease_quantity"
    /\ last.qty <= 0
    /\ StockOf(pre.catalog, last.pid) > 0
    /\ ~last.ret
    /\ catalog = pre.catalog

====
